---- MODULE Spec2Model ----
(***************************************************************************)
(* Model of the retry wrapper (googleRetry), the spreadsheet operations   *)
(* that run through it, the disguised-duplicate detection and the grid    *)
(* range arithmetic of the sheets client.                                  *)
(***************************************************************************)
EXTENDS Integers, Sequences, FiniteSets, TLC

VARIABLES
    pc,            \* "idle" | "attempt" | "sleep" | "returned" | "done" | "pure"
    op,            \* the operation in progress: [name, title, newTitle]
    call,          \* the remote method the current googleRetry call retries
    n,             \* retry.Do: index of the current attempt (0-based)
    errorLog,      \* retry.Do: one slot per allowed attempt, Nil when unused
    attempts,      \* invocations of the retried closure in the current googleRetry call
    delays,        \* sleeps of the current googleRetry call
    waited,        \* how long the latest of them lasted, in milliseconds (0: none yet)
    lastErr,       \* what the latest invocation of the closure returned
    grErr,         \* the error googleRetry returned (NoError or the retry.Error)
    resp,          \* the response the closure captured on its successful attempt
    remoteSheets,  \* sheet titles of the spreadsheet on the remote service
    remotePerms,   \* the permissions of the file on the remote service, as listed
    cached,        \* sheet titles of s.Spreadsheet, the client's cached state
    commits,       \* times the remote side committed the effect of the current call
    opErr,         \* the error the operation returned to its caller
    opVal,         \* the sheet title the operation returned ("" when none)
    refreshed,     \* the operation replaced the cached state by a re-fetched one
    gotErr,        \* some googleRetry call of the operation returned an error
    pin,           \* input of the pure function under check
    pout           \* its result: [done, val]

vars == <<pc, op, call, n, errorLog, attempts, delays, waited, lastErr, grErr, resp,
          remoteSheets, remotePerms, cached, commits, opErr, opVal, refreshed, gotErr,
          pin, pout>>

machineVars == <<pc, op, call, n, errorLog, attempts, delays, waited, lastErr, grErr, resp,
                 remoteSheets, remotePerms, cached, commits, opErr, opVal, refreshed,
                 gotErr>>

-----------------------------------------------------------------------------
(* Errors.  An error value has a dynamic type (kind), and, for a           *)
(* *googleapi.Error, a status code and a message.  Texts are sequences of  *)
(* fragments so that "contains" and "equals" differ.                       *)

RLE  == "Rate Limit Exceeded"
CRBP == "connection reset by peer"
DUP  == "duplicateSheet"

Nil == [kind |-> "nil", code |-> 0, msg |-> <<>>]

GErr(code, msg) == [kind |-> "gapi", code |-> code, msg |-> msg]
OpError(msg)    == [kind |-> "operr", code |-> 0, msg |-> msg]
EOF             == [kind |-> "eof", code |-> 0, msg |-> <<"EOF">>]
OtherErr(msg)   == [kind |-> "other", code |-> 0, msg |-> msg]

\* strings.Contains on a text
Contains(text, frag) == \E i \in 1..Len(text) : text[i] = frag

\* err.Error(): the text of an error value
ErrorText(e) ==
    CASE e.kind = "gapi"  ->
            IF e.msg = <<>>
            THEN <<"googleapi: got HTTP response code", ToString(e.code), "with body">>
            ELSE <<"googleapi: Error", ToString(e.code)>> \o e.msg
      [] e.kind = "operr" -> <<"read tcp">> \o e.msg
      [] e.kind = "eof"   -> <<"EOF">>
      [] OTHER            -> e.msg

AttemptsOneLess == 5 - 1

\* retry.Attempts(5)
Attempts == 5

RetryIfWithout429(err) ==
    IF err.kind = "operr" THEN TRUE
    ELSE IF Contains(ErrorText(err), CRBP) THEN TRUE
    ELSE IF err.kind = "eof" THEN TRUE
    ELSE IF err.kind = "gapi"
         THEN CASE err.code = 403 /\ err.msg = <<RLE>> -> TRUE
                [] err.code >= 500 /\ err.code <= 599 -> TRUE
                [] OTHER -> FALSE
    ELSE FALSE

\* the predicate given to retry.RetryIf
RetryIf(err) ==
    IF err.kind = "operr" THEN TRUE
    ELSE IF Contains(ErrorText(err), CRBP) THEN TRUE
    ELSE IF err.kind = "eof" THEN TRUE
    ELSE IF err.kind = "gapi"
         THEN CASE err.code = 429 -> TRUE
                [] err.code = 403 /\ err.msg = <<RLE>> -> TRUE
                [] err.code >= 500 /\ err.code <= 599 -> TRUE
                [] OTHER -> FALSE
    ELSE FALSE

-----------------------------------------------------------------------------
(* Errors as the operations hand them on.  msg "nil" is the nil error,     *)
(* msg "retry" a retry.Error (the log of the attempts) passed on as is;    *)
(* any other msg is an error made by errors.New / errors.Wrap / Errorf.    *)

NoError        == [msg |-> "nil", cause |-> <<>>]
RetryError(lg) == [msg |-> "retry", cause |-> lg]
NewError(m)    == [msg |-> m, cause |-> <<>>]
Wrap(err, m)   == [msg |-> m, cause |-> err.cause]

IsDuplicateErrorAnyCode(e) ==
    e.kind = "gapi" /\ Contains(e.msg, DUP)

\* a *googleapi.Error with code 400 whose message contains "duplicateSheet"
IsDuplicateError(e) ==
    e.kind = "gapi" /\ e.code = 400 /\ Contains(e.msg, DUP)

\* the loop of isFakeDuplicateSheetError over rerr.WrappedErrors(); index 1 here
\* is index 0 there
RECURSIVE ScanWrappedErrors(_, _, _)
ScanWrappedErrors(errs, i, flags) ==
    IF i > Len(errs) THEN flags
    ELSE ScanWrappedErrors(errs, i + 1,
            IF IsDuplicateError(errs[i])
            THEN IF i = 1
                 THEN [flags EXCEPT !.firstErrorIsNotDuplicate = FALSE]
                 ELSE [flags EXCEPT !.hasSubsequentDuplicate = TRUE]
            ELSE flags)

isFakeDuplicateSheetError(err) ==
    IF err.msg # "retry" THEN FALSE
    ELSE LET flags == ScanWrappedErrors(err.cause, 1,
                         [firstErrorIsNotDuplicate |-> TRUE,
                          hasSubsequentDuplicate |-> FALSE])
         IN  flags.firstErrorIsNotDuplicate /\ flags.hasSubsequentDuplicate

-----------------------------------------------------------------------------
(* The spreadsheet: the titles of its sheets.  The remote service keeps   *)
(* titles distinct up to letter case, so a title names at most one sheet.  *)

Titles == {"Sheet1", "Copy", "copy"}

ToLowerIdentity(t) == t

\* strings.ToLower
ToLower(t) == CASE t = "Sheet1" -> "sheet1"
                [] t = "Copy"   -> "copy"
                [] OTHER        -> t

NoSheet == ""

GetSheetExact(sheets, title) ==
    IF title \in sheets THEN title ELSE NoSheet

\* Spreadsheet.GetSheet on a set of sheet titles
GetSheet(sheets, title) ==
    IF \E t \in sheets : ToLower(t) = ToLower(title)
    THEN CHOOSE t \in sheets : ToLower(t) = ToLower(title)
    ELSE NoSheet

-----------------------------------------------------------------------------
(* The remote service.  An attempt of a call either succeeds (the request *)
(* is valid, its effect is committed and the response returned), or fails *)
(* with an error before anything is committed, or fails with a server or  *)
(* transport error after the effect was committed.                         *)

E400      == GErr(400, <<"badRequest">>)
E400Dup   == GErr(400, <<"Invalid requests[0]", DUP, "already exists">>)
E403      == GErr(403, <<"forbidden">>)
E404      == GErr(404, <<"notFound">>)
E404Reset == GErr(404, <<"upstream", CRBP>>)
E429      == GErr(429, <<"rateLimitExceeded">>)
E500      == GErr(500, <<"backendError">>)

RemoteErrors == {E400, E400Dup, E403, E404, E404Reset, E429, E500, EOF}

\* the errors a remote method answers with
ErrorsOf(c) ==
    CASE c = "BatchUpdate" -> {E400, E400Dup, E429, E500, EOF}
      [] c = "Get"         -> {E404, E429, E500}
      [] c = "PermList"    -> {E403, E500}
      [] c = "PermDelete"  -> {E404, E429, E500}
      [] OTHER             -> {E403, E404, E404Reset, E500}

\* errors that can reach the client although the request was carried out
AfterCommitErrors == {e \in RemoteErrors : e.kind # "gapi" \/ e.code >= 500}

\* a drive.Permission
Permission(id, email) == [Id |-> id, EmailAddress |-> email]

Emails == {"a@x", "c@x"}

\* the loop of Revoke over permissions.Permissions: the first permission whose
\* EmailAddress is email, NoPermission when there is none
NoPermission == Permission(0, "")

TargetLast(permissions, email) ==
    IF \E i \in 1..Len(permissions) : permissions[i].EmailAddress = email
    THEN permissions[CHOOSE i \in 1..Len(permissions) :
                        /\ permissions[i].EmailAddress = email
                        /\ \A j \in (i + 1)..Len(permissions) :
                              permissions[j].EmailAddress # email]
    ELSE NoPermission

Target(permissions, email) ==
    IF \E i \in 1..Len(permissions) : permissions[i].EmailAddress = email
    THEN permissions[CHOOSE i \in 1..Len(permissions) :
                        /\ permissions[i].EmailAddress = email
                        /\ \A j \in 1..(i - 1) : permissions[j].EmailAddress # email]
    ELSE NoPermission

\* a sequence without the permissions of the given id
RECURSIVE WithoutId(_, _)
WithoutId(permissions, id) ==
    IF permissions = <<>> THEN <<>>
    ELSE IF Head(permissions).Id = id THEN WithoutId(Tail(permissions), id)
    ELSE <<Head(permissions)>> \o WithoutId(Tail(permissions), id)

\* the request of the current call can be carried out on the remote state
Valid(c, o, sheets) ==
    CASE c = "BatchUpdate" /\ o.name = "DuplicateSheet" ->
            GetSheet(sheets, o.title) # NoSheet /\ GetSheet(sheets, o.newTitle) = NoSheet
      [] c = "BatchUpdate" /\ o.name = "AddSheet" ->
            GetSheet(sheets, o.title) = NoSheet
      [] c = "BatchUpdate" /\ o.name = "DeleteSheet" ->
            GetSheet(sheets, o.title) # NoSheet /\ Cardinality(sheets) > 1
      [] c = "PermDelete" ->
            \E i \in 1..Len(remotePerms) : remotePerms[i].Id = Target(resp, o.email).Id
      [] OTHER -> TRUE

\* the remote sheets after the request of the current call was carried out
Effect(c, o, sheets) ==
    CASE c = "BatchUpdate" /\ o.name = "DuplicateSheet" -> sheets \cup {o.newTitle}
      [] c = "BatchUpdate" /\ o.name = "AddSheet"       -> sheets \cup {o.title}
      [] c = "BatchUpdate" /\ o.name = "DeleteSheet"    ->
            sheets \ {GetSheet(sheets, o.title)}
      [] OTHER -> sheets

\* the remote permissions after the request of the current call was carried out
EffectPerms(c, o) ==
    IF c = "PermDelete" THEN WithoutId(remotePerms, Target(resp, o.email).Id)
    ELSE remotePerms

\* the response to the request of the current call
Response(c) ==
    IF c = "PermList" THEN remotePerms' ELSE remoteSheets'

-----------------------------------------------------------------------------
(* googleRetry: retry.Do(f, Delay, Attempts(5), RetryIf(...)) of           *)
(* github.com/avast/retry-go v2.6.0 (go.mod).  retry.Do invokes f; on nil  *)
(* it returns nil; on an error it logs the error in the slot of the       *)
(* attempt, breaks when RetryIf is false or the attempt was the last one   *)
(* allowed, and otherwise sleeps and goes on.  After a break it returns    *)
(* the log (a retry.Error with one slot per allowed attempt).              *)
(* The sleep after the failed attempt of index n lasts what the delay     *)
(* type gives for n; googleRetry sets none, and the library's default is   *)
(* the back-off delay (Delay shifted left by n) plus a random delay below  *)
(* its default maximal jitter of 100 milliseconds.                         *)

EmptyLog == [i \in 1..Attempts |-> Nil]

\* an operation and its arguments
Op(name, title, newTitle, email) ==
    [name |-> name, title |-> title, newTitle |-> newTitle, email |-> email]

NoOp == Op("", "", "", "")

\* the locals of retry.Do at its start
RetryReset(c) ==
    /\ call' = c
    /\ n' = 0
    /\ errorLog' = EmptyLog
    /\ attempts' = 0
    /\ delays' = 0
    /\ waited' = 0
    /\ lastErr' = Nil
    /\ grErr' = NoError
    /\ commits' = 0

RetryDoResultLastOnly(log) ==
    RetryError(<<log[CHOOSE i \in DOMAIN log :
                        log[i] # Nil /\ \A j \in DOMAIN log : j > i => log[j] = Nil]>>)

\* what retry.Do returns when the loop ends on an error: the log of all attempts
RetryDoResult(log) == RetryError(log)

\* entering googleRetry for the remote method c
StartRetry(c) ==
    /\ pc' = "attempt"
    /\ RetryReset(c)

\* an operation returns to its caller
Finish(err, val) ==
    /\ pc' = "done"
    /\ opErr' = err
    /\ opVal' = val

retryVars == <<call, n, errorLog, attempts, delays, waited, lastErr, grErr, commits>>

\* an attempt that returns nil: retry.Do returns nil
AttemptSucceeds ==
    /\ pc = "attempt"
    /\ n < Attempts
    /\ Valid(call, op, remoteSheets)
    /\ attempts' = attempts + 1
    /\ remoteSheets' = Effect(call, op, remoteSheets)
    /\ remotePerms' = EffectPerms(call, op)
    /\ commits' = commits + 1
    /\ resp' = IF call = "PermDelete" THEN resp ELSE Response(call)
    /\ lastErr' = Nil
    /\ grErr' = NoError
    /\ pc' = "returned"
    /\ UNCHANGED <<op, call, n, errorLog, delays, waited, cached, opErr, opVal, refreshed, gotErr, pin, pout>>

LoopBreaksOnLastAttemptOnly(err, k) == k = Attempts - 1

LoopBreaksOnPredicateOnly(err, k) == ~RetryIf(err)

\* retry.Do after the failed attempt of index k: leave the loop without a sleep
\* when the error is not retryable or the attempt was the last one allowed
LoopBreaks(err, k) == ~RetryIf(err) \/ k = Attempts - 1

\* an attempt that returns an error: logged, then break or sleep
AttemptFails ==
    /\ pc = "attempt"
    /\ n < Attempts
    /\ \E err \in ErrorsOf(call), committed \in BOOLEAN :
          /\ committed => (err \in AfterCommitErrors /\ Valid(call, op, remoteSheets))
          /\ attempts' = attempts + 1
          /\ remoteSheets' = IF committed THEN Effect(call, op, remoteSheets)
                             ELSE remoteSheets
          /\ remotePerms' = IF committed THEN EffectPerms(call, op) ELSE remotePerms
          /\ commits' = IF committed THEN commits + 1 ELSE commits
          /\ lastErr' = err
          /\ errorLog' = [errorLog EXCEPT ![n + 1] = err]
          /\ IF LoopBreaks(err, n)
             THEN /\ grErr' = RetryDoResult(errorLog')
                  /\ gotErr' = TRUE
                  /\ pc' = "returned"
             ELSE /\ grErr' = grErr
                  /\ gotErr' = gotErr
                  /\ pc' = "sleep"
    /\ UNCHANGED <<op, call, n, delays, waited, resp, cached, opErr, opVal, refreshed, pin, pout>>

\* retry.Delay(15*time.Second), in milliseconds
Delay == 15 * 1000

\* the library's default bound of the random part of a delay, in milliseconds
MaxJitter == 100

\* the random parts a delay is checked with: none, and the largest
Jitters == {0, MaxJitter - 1}

FixedDelay(k) == Delay

\* the deterministic part of the delay after the failed attempt of index k:
\* no retry.DelayType option is given, so the delay doubles with every attempt
BackOffDelay(k) == Delay * (2 ^ k)

\* the durations the sleep after the failed attempt of index k can last
DelayTimes(k) == {BackOffDelay(k) + jitter : jitter \in Jitters}

\* time.Sleep(delayTime) between two attempts, then n++
Sleep ==
    /\ pc = "sleep"
    /\ delays' = delays + 1
    /\ waited' \in DelayTimes(n)
    /\ n' = n + 1
    /\ pc' = "attempt"
    /\ UNCHANGED <<op, call, errorLog, attempts, lastErr, grErr, resp, remoteSheets, remotePerms,
                   cached, commits, opErr, opVal, refreshed, gotErr, pin, pout>>

-----------------------------------------------------------------------------
(* The operations.  Each has an entry action (the code up to its first    *)
(* googleRetry call, or to an early return) and one action per return of  *)
(* googleRetry (the code from there to the next call or to its return).   *)

\* an operation is called: no other one is in progress
Enter(o) ==
    /\ pc \in {"idle", "done"}
    /\ op' = o
    /\ refreshed' = FALSE
    /\ gotErr' = FALSE
    /\ resp' = {}

\* the operation goes into its first googleRetry call
FirstCall(c) ==
    /\ StartRetry(c)
    /\ opErr' = NoError
    /\ opVal' = NoSheet

\* the operation returns before any remote call
EarlyReturn(err, val) ==
    /\ RetryReset("")
    /\ Finish(err, val)

DoBatchDropsError ==
    IF grErr # NoError
    THEN [err |-> NoError, sheets |-> cached]
    ELSE [err |-> NoError, sheets |-> resp]

DoBatchKeepsState ==
    IF grErr # NoError
    THEN [err |-> grErr, sheets |-> cached]
    ELSE [err |-> NoError, sheets |-> cached]

\* Spreadsheet.DoBatch after googleRetry: [err, sheets], the error it returns and
\* the cached state it leaves
DoBatch ==
    IF grErr # NoError
    THEN [err |-> grErr, sheets |-> cached]
    ELSE [err |-> NoError, sheets |-> resp]

GetSpreadsheetStale ==
    IF grErr # NoError
    THEN [err |-> grErr, sheets |-> cached]
    ELSE [err |-> NoError, sheets |-> cached]

\* Client.GetSpreadsheet after googleRetry: [err, sheets]
GetSpreadsheet ==
    IF grErr # NoError
    THEN [err |-> grErr, sheets |-> cached]
    ELSE [err |-> NoError, sheets |-> resp]

\* the tail of DuplicateSheet and AddSheet: look the sheet up in the cached state
Lookup(sheets, title, missing) ==
    IF GetSheet(sheets, title) = NoSheet
    THEN Finish(NewError(missing), NoSheet)
    ELSE Finish(NoError, GetSheet(sheets, title))

DuplicateSheet ==
    \E title \in Titles, newTitle \in Titles :
       /\ Enter(Op("DuplicateSheet", title, newTitle, ""))
       /\ IF GetSheet(cached, title) = NoSheet
          THEN EarlyReturn(NewError("origin sheet does not exist"), NoSheet)
          ELSE IF GetSheet(cached, newTitle) # NoSheet
          THEN EarlyReturn(NewError("destination sheet already exist"), NoSheet)
          ELSE FirstCall("BatchUpdate")
       /\ UNCHANGED <<remoteSheets, remotePerms, cached, pin, pout>>

DuplicateSheetBatchReturned ==
    /\ pc = "returned" /\ op.name = "DuplicateSheet" /\ call = "BatchUpdate"
    /\ LET b == DoBatch IN
       /\ cached' = b.sheets
       /\ IF b.err # NoError
          THEN IF ~isFakeDuplicateSheetError(b.err)
               THEN /\ Finish(Wrap(b.err, "couldn't duplicate sheet"), NoSheet)
                    /\ UNCHANGED retryVars
               ELSE /\ StartRetry("Get")
                    /\ UNCHANGED <<opErr, opVal>>
          ELSE /\ Lookup(b.sheets, op.newTitle, "duplicate sheet does not exist")
               /\ UNCHANGED retryVars
    /\ UNCHANGED <<op, resp, remoteSheets, remotePerms, refreshed, gotErr, pin, pout>>

DuplicateSheetRefreshReturned ==
    /\ pc = "returned" /\ op.name = "DuplicateSheet" /\ call = "Get"
    /\ LET g == GetSpreadsheet IN
       IF g.err # NoError
       THEN /\ Finish(Wrap(g.err, "error refreshing spreadsheet after fake duplicate error"),
                      NoSheet)
            /\ UNCHANGED <<cached, refreshed>>
       ELSE /\ cached' = g.sheets
            /\ refreshed' = TRUE
            /\ Lookup(g.sheets, op.newTitle, "duplicate sheet does not exist")
    /\ UNCHANGED <<op, resp, remoteSheets, remotePerms, gotErr, pin, pout>>
    /\ UNCHANGED retryVars

AddSheet ==
    \E title \in Titles :
       /\ Enter(Op("AddSheet", title, "", ""))
       /\ IF GetSheet(cached, title) # NoSheet
          THEN EarlyReturn(NoError, GetSheet(cached, title))
          ELSE FirstCall("BatchUpdate")
       /\ UNCHANGED <<remoteSheets, remotePerms, cached, pin, pout>>

AddSheetBatchReturned ==
    /\ pc = "returned" /\ op.name = "AddSheet" /\ call = "BatchUpdate"
    /\ LET b == DoBatch IN
       /\ cached' = b.sheets
       /\ IF b.err # NoError
          THEN Finish(b.err, NoSheet)
          ELSE Lookup(b.sheets, op.title, "Unable to get sheet after adding it")
    /\ UNCHANGED <<op, resp, remoteSheets, remotePerms, refreshed, gotErr, pin, pout>>
    /\ UNCHANGED retryVars

DeleteSheet ==
    \E title \in Titles :
       /\ Enter(Op("DeleteSheet", title, "", ""))
       /\ IF GetSheet(cached, title) = NoSheet
          THEN EarlyReturn(NewError("sheet does not exist"), NoSheet)
          ELSE FirstCall("BatchUpdate")
       /\ UNCHANGED <<remoteSheets, remotePerms, cached, pin, pout>>

DeleteSheetBatchReturned ==
    /\ pc = "returned" /\ op.name = "DeleteSheet" /\ call = "BatchUpdate"
    /\ LET b == DoBatch IN
       /\ cached' = b.sheets
       /\ Finish(b.err, NoSheet)
    /\ UNCHANGED <<op, resp, remoteSheets, remotePerms, refreshed, gotErr, pin, pout>>
    /\ UNCHANGED retryVars

CreateSpreadsheet ==
    /\ Enter(Op("CreateSpreadsheet", "", "", ""))
    /\ FirstCall("Create")
    /\ UNCHANGED <<remoteSheets, remotePerms, cached, pin, pout>>

CreateSpreadsheetReturned ==
    /\ pc = "returned" /\ op.name = "CreateSpreadsheet" /\ call = "Create"
    /\ Finish(grErr, NoSheet)
    /\ UNCHANGED <<op, resp, remoteSheets, remotePerms, cached, refreshed, gotErr, pin, pout>>
    /\ UNCHANGED retryVars

CopySpreadsheetFrom ==
    /\ Enter(Op("CopySpreadsheetFrom", "", "", ""))
    /\ FirstCall("Copy")
    /\ UNCHANGED <<remoteSheets, remotePerms, cached, pin, pout>>

CopySpreadsheetFromCopyReturned ==
    /\ pc = "returned" /\ op.name = "CopySpreadsheetFrom" /\ call = "Copy"
    /\ IF grErr # NoError
       THEN /\ Finish(grErr, NoSheet)
            /\ UNCHANGED retryVars
       ELSE /\ StartRetry("Get")
            /\ UNCHANGED <<opErr, opVal>>
    /\ UNCHANGED <<op, resp, remoteSheets, remotePerms, cached, refreshed, gotErr, pin, pout>>

CopySpreadsheetFromGetReturned ==
    /\ pc = "returned" /\ op.name = "CopySpreadsheetFrom" /\ call = "Get"
    /\ Finish(GetSpreadsheet.err, NoSheet)
    /\ UNCHANGED <<op, resp, remoteSheets, remotePerms, cached, refreshed, gotErr, pin, pout>>
    /\ UNCHANGED retryVars

Revoke ==
    \E email \in Emails :
       /\ Enter(Op("Revoke", "", "", email))
       /\ FirstCall("PermList")
       /\ UNCHANGED <<remoteSheets, remotePerms, cached, pin, pout>>

RevokeListReturned ==
    /\ pc = "returned" /\ op.name = "Revoke" /\ call = "PermList"
    /\ IF grErr # NoError
       THEN /\ Finish(Wrap(grErr, "couldn't list permissions"), NoSheet)
            /\ UNCHANGED retryVars
       ELSE IF Target(resp, op.email) # NoPermission
       THEN /\ StartRetry("PermDelete")
            /\ UNCHANGED <<opErr, opVal>>
       ELSE /\ Finish(NoError, NoSheet)
            /\ UNCHANGED retryVars
    /\ UNCHANGED <<op, resp, remoteSheets, remotePerms, cached, refreshed, gotErr, pin, pout>>

RevokeDeleteReturned ==
    /\ pc = "returned" /\ op.name = "Revoke" /\ call = "PermDelete"
    /\ Finish(grErr, NoSheet)
    /\ UNCHANGED <<op, resp, remoteSheets, remotePerms, cached, refreshed, gotErr, pin, pout>>
    /\ UNCHANGED retryVars

Delete ==
    /\ Enter(Op("Delete", "", "", ""))
    /\ FirstCall("FilesDelete")
    /\ UNCHANGED <<remoteSheets, remotePerms, cached, pin, pout>>

DeleteReturned ==
    /\ pc = "returned" /\ op.name = "Delete" /\ call = "FilesDelete"
    /\ Finish(grErr, NoSheet)
    /\ UNCHANGED <<op, resp, remoteSheets, remotePerms, cached, refreshed, gotErr, pin, pout>>
    /\ UNCHANGED retryVars

-----------------------------------------------------------------------------
NoPure == [done |-> FALSE, val |-> FALSE]

MachineInit(pc0) ==
    /\ pc = pc0
    /\ op = NoOp
    /\ call = ""
    /\ n = 0
    /\ errorLog = EmptyLog
    /\ attempts = 0
    /\ delays = 0
    /\ waited = 0
    /\ lastErr = Nil
    /\ grErr = NoError
    /\ resp = {}
    /\ remoteSheets = {"Sheet1"}
    /\ remotePerms = <<Permission(1, "b@x"), Permission(2, "a@x"), Permission(3, "a@x")>>
    /\ cached = {"Sheet1"}
    /\ commits = 0
    /\ opErr = NoError
    /\ opVal = NoSheet
    /\ refreshed = FALSE
    /\ gotErr = FALSE

Init ==
    /\ MachineInit("idle")
    /\ pin = <<>>
    /\ pout = NoPure

Next ==
    \/ AttemptSucceeds
    \/ AttemptFails
    \/ Sleep
    \/ DuplicateSheet
    \/ DuplicateSheetBatchReturned
    \/ DuplicateSheetRefreshReturned
    \/ AddSheet
    \/ AddSheetBatchReturned
    \/ DeleteSheet
    \/ DeleteSheetBatchReturned
    \/ CreateSpreadsheet
    \/ CreateSpreadsheetReturned
    \/ CopySpreadsheetFrom
    \/ CopySpreadsheetFromCopyReturned
    \/ CopySpreadsheetFromGetReturned
    \/ Revoke
    \/ RevokeListReturned
    \/ RevokeDeleteReturned
    \/ Delete
    \/ DeleteReturned

Spec == Init /\ [][Next]_vars

-----------------------------------------------------------------------------
(* The retry predicate on its own: an error value is drawn, then          *)
(* classified.                                                             *)

Codes == {400, 403, 404, 429, 499, 500, 503, 599, 600}

Messages == {<<>>, <<"x">>, <<RLE>>, <<RLE, "x">>, <<CRBP>>, <<"x", CRBP>>, <<DUP>>}

AllErrors ==
    {GErr(c, m) : c \in Codes, m \in Messages}
    \cup {OpError(m) : m \in Messages}
    \cup {OtherErr(m) : m \in Messages \cup {<<"EOF">>}}
    \cup {EOF}

InitRetryIf ==
    /\ MachineInit("pure")
    /\ pin \in AllErrors
    /\ pout = NoPure

ApplyRetryIf ==
    /\ pc = "pure"
    /\ ~pout.done
    /\ pout' = [done |-> TRUE, val |-> RetryIf(pin)]
    /\ UNCHANGED <<machineVars, pin>>

SpecRetryIf == InitRetryIf /\ [][ApplyRetryIf]_vars

-----------------------------------------------------------------------------
(* isFakeDuplicateSheetError on its own: a sequence of per-attempt errors *)
(* is drawn (Nil is an unused slot of the log), then classified.           *)

MaxErrs == 3

LogErrors == {Nil, E400, E400Dup, E500, GErr(409, <<DUP>>), OtherErr(<<DUP>>)}

ErrorSeqs == UNION {[1..k -> LogErrors] : k \in 0..MaxErrs}

InitFakeDup ==
    /\ MachineInit("pure")
    /\ pin \in ErrorSeqs
    /\ pout = NoPure

ApplyIsFakeDuplicateSheetError ==
    /\ pc = "pure"
    /\ ~pout.done
    /\ pout' = [done |-> TRUE, val |-> isFakeDuplicateSheetError(RetryError(pin))]
    /\ UNCHANGED <<machineVars, pin>>

SpecFakeDup == InitFakeDup /\ [][ApplyIsFakeDuplicateSheetError]_vars

-----------------------------------------------------------------------------
(* The occupied rectangle of a fetched grid.  Data is the sequence of     *)
(* grid blocks of a sheet, a block the sequence of its rows (RowData), a  *)
(* row the sequence of its cells (Values).                                 *)

MaxRows == 3
MaxCols == 5

CellPos(r, c) == [Row |-> r, Col |-> c]

\* Sheet.TopLeft
TopLeft == CellPos(0, 0)

BottomRightRowCount(Data) ==
    IF Len(Data) = 0 THEN TopLeft
    ELSE LET RowData == Data[1]
             rows == IF Len(RowData) > 0 THEN Len(RowData) ELSE 0
             cols == IF Len(RowData) > 0 /\ Len(RowData[1]) > 0
                     THEN Len(RowData[1]) - 1 ELSE 0
         IN  CellPos(rows, cols)

BottomRightUnguarded(Data) ==
    IF Len(Data) = 0 THEN TopLeft
    ELSE LET RowData == Data[1]
             rows == Len(RowData) - 1
             cols == IF Len(RowData) > 0 THEN Len(RowData[1]) - 1 ELSE 0
         IN  CellPos(rows, cols)

\* Sheet.BottomRight
BottomRight(Data) ==
    IF Len(Data) = 0 THEN TopLeft
    ELSE LET RowData == Data[1]
             rows == IF Len(RowData) > 0 THEN Len(RowData) - 1 ELSE 0
             cols == IF Len(RowData) > 0 /\ Len(RowData[1]) > 0
                     THEN Len(RowData[1]) - 1 ELSE 0
         IN  CellPos(rows, cols)

RowValues == UNION {[1..k -> {"v"}] : k \in 0..MaxCols}

Blocks == UNION {[1..k -> RowValues] : k \in 0..MaxRows}

Grids == {<<>>} \cup {<<b>> : b \in Blocks}

InitGrid ==
    /\ MachineInit("pure")
    /\ pin \in Grids
    /\ pout = NoPure

ApplyBottomRight ==
    /\ pc = "pure"
    /\ ~pout.done
    /\ pout' = [done |-> TRUE, val |-> BottomRight(pin)]
    /\ UNCHANGED <<machineVars, pin>>

SpecGrid == InitGrid /\ [][ApplyBottomRight]_vars

\* CellRange
CellRange(start, end) == [Start |-> start, End |-> end]

\* Sheet.DataRange of a sheet with the given title and grid data
DataRange(title, Data) ==
    [SheetName |-> title, Range |-> CellRange(TopLeft, BottomRight(Data))]

InitDataRange ==
    /\ MachineInit("pure")
    /\ pin \in [Title : Titles, Data : Grids]
    /\ pout = NoPure

ApplyDataRange ==
    /\ pc = "pure"
    /\ ~pout.done
    /\ pout' = [done |-> TRUE, val |-> DataRange(pin.Title, pin.Data)]
    /\ UNCHANGED <<machineVars, pin>>

SpecDataRange == InitDataRange /\ [][ApplyDataRange]_vars

\* CellPos.RangeForData (range addressing): the block's row count and its
\* widest row, both counted from the anchor, an empty block giving the anchor
RECURSIVE WidestRow(_, _, _)
WidestRow(data, i, w) ==
    IF i > Len(data) THEN w
    ELSE WidestRow(data, i + 1, IF Len(data[i]) > w THEN Len(data[i]) ELSE w)

RangeForData(start, data) ==
    LET rowCount == Len(data)
        width == WidestRow(data, 1, 0)
    IN  CellRange(start,
                  CellPos(start.Row + (IF rowCount > 0 THEN rowCount - 1 ELSE 0),
                          start.Col + (IF width > 0 THEN width - 1 ELSE 0)))

MaxAnchor == 2
Anchors == {CellPos(r, c) : r \in 0..MaxAnchor, c \in 0..MaxAnchor}

InitRange ==
    /\ MachineInit("pure")
    /\ pin \in [start : Anchors, data : Blocks]
    /\ pout = NoPure

ApplyRangeForDataAtOrigin ==
    /\ pc = "pure"
    /\ ~pout.done
    /\ pout' = [done |-> TRUE, val |-> RangeForData(TopLeft, pin.data)]
    /\ UNCHANGED <<machineVars, pin>>

\* UpdateFromPositionIface: cellRange := start.RangeForData(data)
ApplyRangeForData ==
    /\ pc = "pure"
    /\ ~pout.done
    /\ pout' = [done |-> TRUE, val |-> RangeForData(pin.start, pin.data)]
    /\ UNCHANGED <<machineVars, pin>>

SpecRange == InitRange /\ [][ApplyRangeForData]_vars

\* Range text.  A text is the sequence of its pieces: the sheet title, the
\* separators, one piece per column letter and one per row number.
Alphabet ==
    <<"A", "B", "C", "D", "E", "F", "G", "H", "I", "J", "K", "L", "M",
      "N", "O", "P", "Q", "R", "S", "T", "U", "V", "W", "X", "Y", "Z">>

\* number of three-letter-wide columns, the last column index being one less
ColumnCount == 18278
LastColumn == ColumnCount - 1

\* column letters of a zero-based column index (base 26 with carry)
RECURSIVE ColumnName(_)
ColumnName(col) ==
    IF col < Len(Alphabet) THEN <<Alphabet[col + 1]>>
    ELSE ColumnName((col \div Len(Alphabet)) - 1)
             \o <<Alphabet[(col % Len(Alphabet)) + 1]>>

\* CellPos.String: column letters, then the one-based row number
CellPosString(pos) == ColumnName(pos.Col) \o <<ToString(pos.Row + 1)>>

\* CellRange.String
CellRangeString(range) ==
    CellPosString(range.Start) \o <<":">> \o CellPosString(range.End)

\* SheetRange.String
SheetRangeString(sheetRange) ==
    <<sheetRange.SheetName, "!">> \o CellRangeString(sheetRange.Range)

UpdateRangeTextNoSheet(title, cellRange) == CellRangeString(cellRange)

\* UpdateFromPositionIface: fmt.Sprintf("%s!%s", s.Title(), cellRange.String())
UpdateRangeText(title, cellRange) ==
    <<title>> \o <<"!">> \o CellRangeString(cellRange)

RangeRows == {1, 9}
RangeStarts == {TopLeft, CellPos(1, 26)}
RangeEnds == {CellPos(r, c) : r \in RangeRows, c \in 0..LastColumn}

InitFormat ==
    /\ MachineInit("pure")
    /\ pin \in {x \in [Title : {"Sheet1"}, Start : RangeStarts, End : RangeEnds] :
                   x.End.Col >= x.Start.Col}
    /\ pout = NoPure

\* UpdateFromPositionIface building the range text of its request
ApplyUpdateRangeText ==
    /\ pc = "pure"
    /\ ~pout.done
    /\ pout' = [done |-> TRUE,
                val |-> UpdateRangeText(pin.Title, CellRange(pin.Start, pin.End))]
    /\ UNCHANGED <<machineVars, pin>>

\* Append building the range text of its request: s.DataRange().String()
ApplyAppendRangeText ==
    /\ pc = "pure"
    /\ ~pout.done
    /\ pin.Start = TopLeft
    /\ pout' = [done |-> TRUE,
                val |-> SheetRangeString([SheetName |-> pin.Title,
                                          Range |-> CellRange(TopLeft, pin.End)])]
    /\ UNCHANGED <<machineVars, pin>>

SpecFormat ==
    InitFormat /\ [][ApplyUpdateRangeText \/ ApplyAppendRangeText]_vars

-----------------------------------------------------------------------------
(* Properties                                                              *)

InGoogleRetry == pc \in {"attempt", "sleep"}

Returned == pc \in {"returned", "done"}

Is429(e) == e.kind = "gapi" /\ e.code = 429

Is500(e) == e.kind = "gapi" /\ e.code = 500

\* a remote 4xx error that is neither a 429 nor the 403 "Rate Limit Exceeded"
IsPermanent4xx(e) ==
    /\ e.kind = "gapi"
    /\ e.code >= 400 /\ e.code <= 499
    /\ e.code # 429
    /\ ~(e.code = 403 /\ e.msg = <<RLE>>)

\* C1: when the first attempt of a googleRetry call fails with a 4xx remote
\* error other than 429 and other than 403 "Rate Limit Exceeded", the closure
\* is invoked exactly once, no delay is waited and the error is returned.
C1_PermanentErrorOnce ==
    IsPermanent4xx(errorLog[1]) =>
        /\ attempts = 1
        /\ delays = 0
        /\ Returned
        /\ grErr = RetryError(errorLog)
        /\ lastErr = errorLog[1]

\* C2: a closure that fails with a 429 on its first two invocations and
\* succeeds on the third is invoked exactly 3 times with exactly 2 delays, and
\* googleRetry returns nil: the call does not end before the third invocation.
C2_TwoRateLimitsThenSuccess ==
    ( /\ attempts >= 1
      /\ Is429(errorLog[1])
      /\ attempts >= 2 => Is429(errorLog[2])
      /\ attempts >= 3 => errorLog[3] = Nil )
    => /\ attempts <= 3
       /\ attempts < 3 => /\ InGoogleRetry
                          /\ delays = IF pc = "sleep" THEN attempts - 1 ELSE attempts
       /\ attempts = 3 => /\ Returned
                          /\ grErr = NoError
                          /\ delays = 2

C2_Witness ==
    /\ pc = "returned"
    /\ attempts = 3
    /\ Is429(errorLog[1]) /\ Is429(errorLog[2]) /\ errorLog[3] = Nil
    /\ lastErr = Nil
    /\ grErr = NoError
    /\ delays = 2

\* C3: googleRetry allows 5 attempts: the closure is never invoked a 6th time,
\* and a closure that fails with a 500 on invocations 1 to 4 and succeeds on
\* the 5th is invoked 5 times and googleRetry returns nil.
C3_FiveAttempts ==
    /\ attempts <= 5
    /\ ( /\ attempts >= 1
         /\ \A i \in 1..4 : attempts >= i => Is500(errorLog[i])
         /\ attempts >= 5 => errorLog[5] = Nil )
       => /\ attempts < 5 => InGoogleRetry
          /\ attempts = 5 => /\ Returned
                             /\ grErr = NoError
                             /\ delays = 4

C3_Witness ==
    /\ pc = "returned"
    /\ attempts = 5
    /\ \A i \in 1..4 : Is500(errorLog[i])
    /\ errorLog[5] = Nil
    /\ grErr = NoError

\* C4: when all 5 attempts fail with a retryable error, googleRetry returns an
\* error that ends with the last attempt's error and tells how many attempts
\* were made (one logged error per attempt).
C4_ExhaustedReturnsLog ==
    ( /\ Returned
      /\ attempts = 5
      /\ \A i \in 1..5 : errorLog[i] # Nil /\ RetryIf(errorLog[i]) )
    => /\ grErr.msg = "retry"
       /\ Len(grErr.cause) >= 1
       /\ grErr.cause[Len(grErr.cause)] = lastErr
       /\ Cardinality({i \in DOMAIN grErr.cause : grErr.cause[i] # Nil}) = attempts

C4_Witness ==
    /\ pc = "returned"
    /\ attempts = 5
    /\ delays = 4
    /\ \A i \in 1..5 : errorLog[i] # Nil /\ RetryIf(errorLog[i])
    /\ grErr # NoError

\* the errors the classification is said to retry
ClaimRetryable(e) ==
    \/ e.kind = "gapi" /\ e.code = 429
    \/ e.kind = "gapi" /\ e.code >= 500 /\ e.code <= 599
    \/ e.kind = "gapi" /\ e.code = 403 /\ e.msg = <<RLE>>
    \/ e.kind # "gapi" /\ Contains(ErrorText(e), CRBP)
    \/ e.kind = "eof"
    \/ e.kind = "operr"

\* C5: the retry predicate is true exactly for a remote 429, a remote 5xx, a
\* remote 403 "Rate Limit Exceeded", a transport error (connection reset by
\* peer, io.EOF) and a *net.OpError, and false for every other error.
C5_RetryableExactly ==
    pout.done => (pout.val <=> ClaimRetryable(pin))

\* a duplicate error: remote error 400 with "duplicateSheet" in its message
ClaimDuplicate(e) ==
    /\ e.kind = "gapi"
    /\ e.code = 400
    /\ \E i \in DOMAIN e.msg : e.msg[i] = DUP

\* the disguised-success pattern of a sequence of per-attempt errors
ClaimPattern(log) ==
    /\ Len(log) >= 1
    /\ ~ClaimDuplicate(log[1])
    /\ \E i \in 2..Len(log) : ClaimDuplicate(log[i])

\* C6: isFakeDuplicateSheetError is true iff the first attempt's error is not
\* a duplicate error and a later attempt's error is one; [non-duplicate 400,
\* 500, duplicate 400] is a disguised success, [duplicate 400, duplicate 400]
\* is not.
C6_FakeDuplicateIff ==
    pout.done =>
        /\ pout.val <=> ClaimPattern(pin)
        /\ pin = <<E400, E500, E400Dup>> => pout.val
        /\ pin = <<E400Dup, E400Dup>> => ~pout.val

C6_Witness ==
    /\ pout.done
    /\ pin = <<E400, E500, E400Dup>>
    /\ pout.val

\* C7: when the batch call of DuplicateSheet ends with the disguised-success
\* pattern, DuplicateSheet re-fetches the spreadsheet; when the re-fetch
\* succeeds it replaces the cached state by the fetched one and returns the
\* sheet named newTitle with a nil error, or an error if the fetched state
\* has no such sheet; when the re-fetch fails it returns an error.
C7_DisguisedSuccessRefreshes ==
    [][ /\ ( /\ pc = "returned" /\ op.name = "DuplicateSheet" /\ call = "BatchUpdate"
             /\ grErr # NoError /\ ClaimPattern(grErr.cause) )
           => (pc' = "attempt" /\ call' = "Get" /\ attempts' = 0 /\ cached' = cached)
        /\ ( pc = "returned" /\ op.name = "DuplicateSheet" /\ call = "Get" )
           => /\ pc' = "done"
              /\ IF grErr = NoError
                 THEN /\ cached' = resp
                      /\ IF \E t \in resp : ToLower(t) = ToLower(op.newTitle)
                         THEN /\ opErr' = NoError
                              /\ opVal' \in resp
                              /\ ToLower(opVal') = ToLower(op.newTitle)
                         ELSE opErr' # NoError
                 ELSE /\ opErr' # NoError
                      /\ cached' = cached
      ]_vars

C7_Witness ==
    /\ pc = "done"
    /\ op.name = "DuplicateSheet"
    /\ refreshed
    /\ gotErr
    /\ opErr = NoError
    /\ opVal = op.newTitle
    /\ op.newTitle \in cached

\* C8: an operation that gets an error from googleRetry returns a non-nil
\* error, except DuplicateSheet on the disguised-success pattern, which goes
\* on to refresh its state and can then return a sheet.
C8_ErrorsPropagate ==
    /\ [][ (pc = "returned" /\ grErr # NoError)
           => \/ pc' = "done" /\ opErr' # NoError
              \/ /\ op.name = "DuplicateSheet" /\ call = "BatchUpdate"
                 /\ ClaimPattern(grErr.cause)
                 /\ pc' = "attempt" /\ call' = "Get" ]_vars
    /\ [](pc = "done" /\ gotErr /\ opErr = NoError
            => op.name = "DuplicateSheet" /\ refreshed)

C8_Witness ==
    /\ pc = "done"
    /\ op.name = "AddSheet"
    /\ gotErr
    /\ opErr # NoError
    /\ opErr = grErr

\* C9: when an attempt of CreateSpreadsheet or CopySpreadsheetFrom fails with
\* a retryable error after the remote side committed its effect and a later
\* attempt succeeds, what googleRetry returns tells the caller of the failed
\* attempts.
C9_AmbiguitySurfaced ==
    ( /\ pc = "returned"
      /\ call \in {"Create", "Copy"}
      /\ lastErr = Nil
      /\ commits >= 2 )
    => grErr # NoError

\* the largest number of cells of a row
MaxWidth(rows) ==
    IF Len(rows) = 0 THEN 0
    ELSE CHOOSE w \in {Len(rows[i]) : i \in 1..Len(rows)} :
            \A i \in 1..Len(rows) : Len(rows[i]) <= w

\* C10: for every fetched grid, BottomRight has Col = (the largest number of
\* cells of a row) - 1.
C10_BottomRightMaxWidth ==
    (pout.done /\ Len(pin) > 0 /\ MaxWidth(pin[1]) > 0)
        => pout.val.Col = MaxWidth(pin[1]) - 1

\* C11: for an empty grid (no data block, or a block with no rows) DataRange
\* is the single cell (0,0)..(0,0); for a grid with rows End.Row is the index
\* of the last row of the row data.
C11_DataRangeRows ==
    pout.done =>
        /\ pout.val.SheetName = pin.Title
        /\ pout.val.Range.Start = [Row |-> 0, Col |-> 0]
        /\ (Len(pin.Data) = 0 \/ Len(pin.Data[1]) = 0)
              => pout.val.Range.End = [Row |-> 0, Col |-> 0]
        /\ (Len(pin.Data) > 0 /\ Len(pin.Data[1]) > 0)
              => pout.val.Range.End.Row = Len(pin.Data[1]) - 1

C11_Witness ==
    /\ pout.done
    /\ Len(pin.Data) > 0
    /\ Len(pin.Data[1]) = 3
    /\ pout.val.Range.End.Row = 2

\* C15: the range DataRange returns starts at (0,0) and its End is not above
\* or left of its Start.
C15_DataRangeOrdered ==
    pout.done =>
        /\ pout.val.Range.Start = [Row |-> 0, Col |-> 0]
        /\ pout.val.Range.End.Row >= pout.val.Range.Start.Row
        /\ pout.val.Range.End.Col >= pout.val.Range.Start.Col

C15_Witness ==
    /\ pout.done
    /\ Len(pin.Data) > 0
    /\ Len(pin.Data[1]) > 0
    /\ Len(pin.Data[1][1]) = 0
    /\ pout.val.Range.End.Col = 0

ClaimMax0(k) == IF k > 0 THEN k ELSE 0

\* C12: the range computed for an anchor and a data block starts at the
\* anchor, ends max(0, rows - 1) rows and max(0, widest row - 1) columns
\* after it, and is the single cell {anchor, anchor} for empty data.
C12_RangeForDataExtent ==
    pout.done =>
        /\ pout.val.Start = pin.start
        /\ pout.val.End.Row = pin.start.Row + ClaimMax0(Len(pin.data) - 1)
        /\ pout.val.End.Col = pin.start.Col + ClaimMax0(MaxWidth(pin.data) - 1)
        /\ Len(pin.data) = 0 => pout.val = [Start |-> pin.start, End |-> pin.start]

C12_Witness ==
    /\ pout.done
    /\ pin.start = [Row |-> 1, Col |-> 2]
    /\ Len(pin.data) = 3
    /\ Len(pin.data[1]) = 1
    /\ Len(pin.data[2]) = 3
    /\ Len(pin.data[3]) = 2
    /\ pout.val.End = [Row |-> 3, Col |-> 4]

\* position (1..26) of a letter piece
ClaimLetterRank(l) ==
    CHOOSE k \in 1..26 : l = Alphabet[k]

\* the column index a letter sequence denotes
RECURSIVE ClaimColumnIndex(_)
ClaimColumnIndex(letters) ==
    IF Len(letters) = 0 THEN -1
    ELSE (ClaimColumnIndex(SubSeq(letters, 1, Len(letters) - 1)) + 1) * 26
             + ClaimLetterRank(letters[Len(letters)]) - 1

ClaimIsLetter(piece) == \E k \in 1..26 : piece = Alphabet[k]

\* the pieces of a text from position i up to the first piece that is no letter
RECURSIVE ClaimLettersFrom(_, _)
ClaimLettersFrom(text, i) ==
    IF i > Len(text) \/ ~ClaimIsLetter(text[i]) THEN <<>>
    ELSE <<text[i]>> \o ClaimLettersFrom(text, i + 1)

ClaimFixture(col) ==
    CASE col = 0   -> <<"A">>
      [] col = 25  -> <<"Z">>
      [] col = 26  -> <<"A", "A">>
      [] col = 701 -> <<"Z", "Z">>
      [] col = 702 -> <<"A", "A", "A">>
      [] col = 18277 -> <<"Z", "Z", "Z">>
      [] OTHER -> <<>>

\* C13: the range text is "<title>!<col(Start.Col)><Start.Row+1>:
\* <col(End.Col)><End.Row+1>", the column letters being the base-26 letters
\* with carry of the column index (0 -> A, 25 -> Z, 26 -> AA, 701 -> ZZ,
\* 702 -> AAA), for every column index up to 18277.
C13_RangeTextFormat ==
    pout.done =>
        LET text == pout.val
            c1 == ClaimLettersFrom(text, 3)
            p1 == 3 + Len(c1)
            c2 == ClaimLettersFrom(text, p1 + 2)
            p2 == p1 + 2 + Len(c2)
        IN  /\ Len(text) = p2
            /\ text[1] = pin.Title
            /\ text[2] = "!"
            /\ Len(c1) \in 1..3
            /\ ClaimColumnIndex(c1) = pin.Start.Col
            /\ text[p1] = ToString(pin.Start.Row + 1)
            /\ text[p1 + 1] = ":"
            /\ Len(c2) \in 1..3
            /\ ClaimColumnIndex(c2) = pin.End.Col
            /\ text[p2] = ToString(pin.End.Row + 1)
            /\ ClaimFixture(pin.End.Col) # <<>> => c2 = ClaimFixture(pin.End.Col)
            /\ ClaimFixture(pin.Start.Col) # <<>> => c1 = ClaimFixture(pin.Start.Col)

C13_Witness ==
    /\ pout.done
    /\ pin.Start = [Row |-> 1, Col |-> 26]
    /\ pin.End = [Row |-> 9, Col |-> 702]
    /\ pout.val = <<"Sheet1", "!", "A", "A", "2", ":", "A", "A", "A", "10">>

ClaimRecorded(log) == {i \in DOMAIN log : log[i] # Nil}

ClaimIsLast(log, i) == \A j \in DOMAIN log : j > i => log[j] = Nil

ClaimStarted == IF pc = "attempt" THEN attempts + 1 ELSE attempts

\* C17: throughout a googleRetry call the delays waited are one less than the
\* attempts started, which are between 1 and 5; a delay is waited only after
\* a failed attempt with a retryable error that was not the 5th attempt.
C17_DelaysFollowAttempts ==
    /\ [](pc \in {"attempt", "sleep", "returned"}
            => /\ delays = ClaimStarted - 1
               /\ ClaimStarted >= 1
               /\ ClaimStarted <= 5)
    /\ [][ delays' # delays
           => \/ delays' = 0 /\ pc \in {"idle", "done", "returned"}
              \/ /\ delays' = delays + 1
                 /\ lastErr # Nil
                 /\ RetryIf(lastErr)
                 /\ attempts < 5
                 /\ pc = "sleep" ]_vars

C17_Witness ==
    /\ pc = "done"
    /\ op.name = "Delete"
    /\ attempts = 5
    /\ delays = 4
    /\ lastErr = E500
    /\ opErr # NoError

\* two titles that differ at most in the case of their letters
ClaimSameTitle(a, b) == a = b \/ {a, b} = {"Copy", "copy"}

ClaimHas(sheets, title) == \E t \in sheets : ClaimSameTitle(t, title)

\* the step is a call of the operation of that name
ClaimCalled(name) == pc \in {"idle", "done"} /\ op'.name = name

\* C18: DuplicateSheet called when the cached state has no sheet matching the
\* origin title, or already has one matching the new title (case-insensitive),
\* returns an error with no remote call and no change of the cached state.
C18_DuplicateSheetRejects ==
    [][ ( /\ ClaimCalled("DuplicateSheet")
          /\ \/ ~ClaimHas(cached, op'.title)
             \/ ClaimHas(cached, op'.newTitle) )
        => /\ pc' = "done"
           /\ opErr' # NoError
           /\ opVal' = NoSheet
           /\ call' = ""
           /\ attempts' = 0
           /\ cached' = cached
           /\ remoteSheets' = remoteSheets ]_vars

C18_Witness ==
    /\ pc = "done"
    /\ op.name = "DuplicateSheet"
    /\ op.title = "Sheet1"
    /\ op.newTitle = "copy"
    /\ "Copy" \in cached
    /\ attempts = 0
    /\ opErr = NewError("destination sheet already exist")

\* C19: DoBatch replaces the cached state by the state the remote service
\* returned exactly when the retried batch call ends in success; when it ends
\* in an error the cached state stays as it was, also when a failed attempt
\* changed the remote state.
C19_DoBatchStateOnSuccessOnly ==
    [][ /\ (pc = "returned" /\ call = "BatchUpdate" /\ grErr = NoError)
           => (cached' = resp /\ resp = remoteSheets)
        /\ (pc = "returned" /\ call = "BatchUpdate" /\ grErr # NoError)
           => cached' = cached
        /\ (pc \in {"attempt", "sleep"} /\ call = "BatchUpdate")
           => cached' = cached ]_vars

C19_Witness ==
    /\ pc = "done"
    /\ op.name = "AddSheet"
    /\ opErr # NoError
    /\ commits > 0
    /\ op.title \in remoteSheets
    /\ op.title \notin cached

\* C20: AddSheet called when the cached state already has a sheet matching the
\* title (case-insensitive) returns that sheet with no remote call and no
\* state change, so a second AddSheet of the title of a successful one issues
\* no request.
C20_AddSheetIdempotent ==
    /\ [][ (ClaimCalled("AddSheet") /\ ClaimHas(cached, op'.title))
           => /\ pc' = "done"
              /\ opErr' = NoError
              /\ opVal' \in cached
              /\ ClaimSameTitle(opVal', op'.title)
              /\ call' = ""
              /\ attempts' = 0
              /\ cached' = cached
              /\ remoteSheets' = remoteSheets ]_vars
    /\ [](pc = "done" /\ op.name = "AddSheet" /\ opErr = NoError
            => ClaimHas(cached, op.title) /\ ClaimSameTitle(opVal, op.title))

C20_Witness ==
    /\ pc = "done"
    /\ op.name = "AddSheet"
    /\ op.title = "copy"
    /\ opVal = "Copy"
    /\ attempts = 0
    /\ opErr = NoError

\* positions of the listed permissions whose email address is the given one
ClaimMatches(listed, email) ==
    {i \in 1..Len(listed) : listed[i].EmailAddress = email}

ClaimFirstMatch(listed, email) ==
    CHOOSE i \in ClaimMatches(listed, email) :
        \A j \in ClaimMatches(listed, email) : i <= j

\* the permissions that are left when the one of the given id is deleted
ClaimLeft(perms, id) ==
    SelectSeq(perms, LAMBDA p : p.Id # id)

\* C21: Revoke issues a delete for at most one permission, the first listed
\* one whose email address is the given email; when no listed permission
\* matches it issues no delete and returns nil, and when the listing fails it
\* issues no delete and returns an error.
C21_RevokeDeletesFirstMatchOnly ==
    /\ [](call = "PermDelete"
            => /\ op.name = "Revoke"
               /\ ClaimMatches(resp, op.email) # {}
               /\ commits <= 1)
    /\ [][ /\ remotePerms' # remotePerms
              => /\ op.name = "Revoke" /\ call = "PermDelete" /\ pc = "attempt"
                 /\ commits = 0
                 /\ Len(remotePerms') = Len(remotePerms) - 1
                 /\ remotePerms' =
                       ClaimLeft(remotePerms,
                                 resp[ClaimFirstMatch(resp, op.email)].Id)
           /\ (pc = "returned" /\ call = "PermList" /\ grErr = NoError
                  /\ ClaimMatches(resp, op.email) = {})
              => /\ pc' = "done" /\ opErr' = NoError
                 /\ call' = "PermList"
                 /\ remotePerms' = remotePerms
           /\ (pc = "returned" /\ call = "PermList" /\ grErr # NoError)
              => /\ pc' = "done" /\ opErr' # NoError
                 /\ call' = "PermList"
                 /\ remotePerms' = remotePerms
           /\ (pc = "returned" /\ call = "PermList" /\ grErr = NoError
                  /\ ClaimMatches(resp, op.email) # {})
              => pc' = "attempt" /\ call' = "PermDelete" ]_vars

C21_Witness ==
    /\ pc = "done"
    /\ op.name = "Revoke"
    /\ op.email = "a@x"
    /\ call = "PermDelete"
    /\ opErr = NoError
    /\ remotePerms = <<[Id |-> 1, EmailAddress |-> "b@x"],
                       [Id |-> 3, EmailAddress |-> "a@x"]>>

====
